---------------------------- MODULE Spec2Model ----------------------------
(***************************************************************************)
(* Model of get_vcf_frqs.py: the grouping-table loader (get_groupings),    *)
(* the per-variant aggregator (get_frequencies) and the line loop of main  *)
(* (sample-header handling, group index construction, streaming output).   *)
(*                                                                         *)
(* Text is modelled as sequences of one-character strings, a line of a     *)
(* file as the sequence of its fields, a Python dict as the sequence of    *)
(* its items [k |-> key, v |-> value] in insertion order.                  *)
(***************************************************************************)
EXTENDS Integers, Sequences, FiniteSets, TLC

VARIABLES
    pc,               \* "groupings_header" | "groupings_rows" | "read" | "done" | "abort"
    error,            \* name of the exception that ended the run, "" if none
    use_iid,          \* main: 1 (individual token) or 2 (family token, --use-fid)
    header_fields,    \* get_groupings: fields of the grouping file's header line
    grouping_dict,    \* get_groupings: individual -> dict(system -> label)
    grouping_headers, \* get_groupings: system -> set of labels
    nrows,            \* number of grouping-file data rows consumed
    mismatch,         \* some non-blank grouping row had a field count other than the header's
    grouping_info,    \* main: the table get_groupings returned
    grouping_systems, \* main: the systems get_groupings returned
    sample_names,     \* main: resolved sample keys, in column order
    group_sets,       \* main: dict(label -> set of column positions)
    group_sets_bound, \* whether main's local group_sets has been assigned
    line,             \* main: the variant-file line being processed, as its fields
    sums,             \* get_frequencies: dict(label -> sum), as the last call left it
    counts,           \* get_frequencies: dict(label -> count), as the last call left it
    out,              \* the output file: sequence of lines [cols, nl]
    lineno,           \* number of variant-file lines consumed
    data_read         \* the first five fields of the data lines consumed, in order

vars == <<pc, error, use_iid, header_fields, grouping_dict, grouping_headers,
          nrows, mismatch, grouping_info, grouping_systems, sample_names,
          group_sets, group_sets_bound, line, sums, counts, out, lineno,
          data_read>>

---------------------------------------------------------------------------
(* Bounds of the model *)

MaxSys == 2          \* grouping systems named by the grouping file's header
MaxGroupRows == 2    \* data rows of the grouping file
MaxSamples == 2      \* sample columns of the variant file
MaxLines == 2        \* lines of the variant file
MaxGtLen == 3        \* characters of a genotype field, in SpecAggregate
MaxTokens == 3       \* '_'-delimited tokens of a sample name, in SpecResolve

---------------------------------------------------------------------------
(* Text helpers *)

Min(a, b) == IF a < b THEN a ELSE b

RECURSIVE GCD(_, _)
GCD(a, b) == IF b = 0 THEN a ELSE GCD(b, a % b)

Digits == {"0", "1", "2", "3", "4", "5", "6", "7", "8", "9"}

\* s.startswith(p)
StartsWith(s, p) == Len(s) >= Len(p) /\ SubSeq(s, 1, Len(p)) = p

\* s.split("_"): every separator ends a token, empty tokens are kept
RECURSIVE SplitAcc(_, _, _)
SplitAcc(s, cur, acc) ==
    IF s = <<>> THEN Append(acc, cur)
    ELSE IF Head(s) = "_" THEN SplitAcc(Tail(s), <<>>, Append(acc, cur))
    ELSE SplitAcc(Tail(s), Append(cur, Head(s)), acc)

SplitUnderscore(s) == SplitAcc(s, <<>>, <<>>)

\* s.count('1')
RECURSIVE CountOnes(_)
CountOnes(s) ==
    IF s = <<>> THEN 0
    ELSE (IF Head(s) = "1" THEN 1 ELSE 0) + CountOnes(Tail(s))

\* CountDigits with only '0' taken for a digit; C8 tells it from CountDigits
RECURSIVE CountZeros(_)
CountZeros(s) ==
    IF s = <<>> THEN 0
    ELSE (IF Head(s) = "0" THEN 1 ELSE 0) + CountZeros(Tail(s))

\* sum(character.isdigit() for character in s)
RECURSIVE CountDigits(_)
CountDigits(s) ==
    IF s = <<>> THEN 0
    ELSE (IF Head(s) \in Digits THEN 1 ELSE 0) + CountDigits(Tail(s))

---------------------------------------------------------------------------
(* Python dict: items in insertion order *)

DictKeys(d) == {d[i].k : i \in 1..Len(d)}

DictHas(d, key) == key \in DictKeys(d)

DictGet(d, key) == d[CHOOSE i \in 1..Len(d) : d[i].k = key].v

\* d[key] = val: an existing key keeps its position
DictSet(d, key, val) ==
    IF DictHas(d, key)
    THEN [i \in 1..Len(d) |-> IF d[i].k = key THEN [k |-> key, v |-> val] ELSE d[i]]
    ELSE Append(d, [k |-> key, v |-> val])

\* list(d.values())
DictValues(d) == [i \in 1..Len(d) |-> d[i].v]

\* a mapping whose order is never observed, as a function
FnSet(f, key, val) == [x \in DOMAIN f \cup {key} |-> IF x = key THEN val ELSE f[x]]

EmptyFn == [x \in {} |-> {}]

\* d[key] on a defaultdict(dict): a missing key reads as an empty dict
TableEntry(info, key) == IF key \in DOMAIN info THEN info[key] ELSE <<>>

---------------------------------------------------------------------------
(* Inputs *)

SeqsUpTo(S, n) == UNION {[1..k -> S] : k \in 0..n}

SystemNames == {"SYS1", "SYS2"}
Labels == {"x", "y"}
Individuals == {<<"A">>, <<"B">>}

\* header lines of the grouping file, split on whitespace: a row label followed
\* by the grouping-system names
GroupingHeaders == {<<"ID">> \o h : h \in SeqsUpTo(SystemNames, MaxSys)}

\* data rows of the grouping file, split on whitespace: a blank line, or an
\* individual followed by labels (one more than any header allows, at most)
GroupingRows ==
    {<<>>} \cup {<<id>> \o l : id \in Individuals, l \in SeqsUpTo(Labels, MaxSys + 1)}

---------------------------------------------------------------------------
(* get_groupings *)

\* iterations 0 .. upto-1 of the loop of lines 70-72 on one individual's dict
RECURSIVE ApplyRow(_, _, _, _)
ApplyRow(entry, hdr, flds, upto) ==
    IF upto = 0 THEN entry
    ELSE DictSet(ApplyRow(entry, hdr, flds, upto - 1), hdr[upto], flds[upto + 1])

\* the same iterations on grouping_headers
RECURSIVE ApplyRowHeaders(_, _, _, _)
ApplyRowHeaders(gh, hdr, flds, upto) ==
    IF upto = 0 THEN gh
    ELSE LET prev == ApplyRowHeaders(gh, hdr, flds, upto - 1)
             sys == hdr[upto]
             old == IF sys \in DOMAIN prev THEN prev[sys] ELSE {}
         IN  FnSet(prev, sys, old \cup {flds[upto + 1]})

\* len(fields[1:])
NumLabels(flds) == IF Len(flds) = 0 THEN 0 ELSE Len(flds) - 1

\* header_names[group_index] raises KeyError once group_index passes the header
RowRaises(hdr, flds) == NumLabels(flds) > Len(hdr)

\* iterations of the row loop that run to their end
RowIterations(hdr, flds) == Min(NumLabels(flds), Len(hdr))

\* lines 64-65: header_names, index -> name of the grouping system (1-based here)
HeaderNames(hf) == IF Len(hf) = 0 THEN <<>> ELSE Tail(hf)

\* lines 61-63
ReadGroupingHeader(hf) ==
    /\ pc = "groupings_header"
    /\ header_fields' = hf
    /\ pc' = "groupings_rows"
    /\ UNCHANGED <<error, use_iid, grouping_dict, grouping_headers, nrows, mismatch,
                   grouping_info, grouping_systems, sample_names, group_sets,
                   group_sets_bound, line, sums, counts, out, lineno, data_read>>

\* grouping_dict after lines 69-72 on one row; grouping_dict[fields[0]] is
\* created by the first iteration, before header_names is indexed
RowDict(gd, hdr, flds) ==
    IF NumLabels(flds) = 0 THEN gd
    ELSE FnSet(gd, flds[1],
               ApplyRow(TableEntry(gd, flds[1]), hdr, flds, RowIterations(hdr, flds)))

\* grouping_headers after lines 69-72 on one row
RowHeaders(gh, hdr, flds) == ApplyRowHeaders(gh, hdr, flds, RowIterations(hdr, flds))

\* lines 68-72, one row
ReadGroupingRow(flds) ==
    /\ pc = "groupings_rows"
    /\ nrows < MaxGroupRows
    /\ nrows' = nrows + 1
    /\ mismatch' = (mismatch \/ (Len(flds) > 0 /\ Len(flds) # Len(header_fields)))
    /\ grouping_dict' = RowDict(grouping_dict, HeaderNames(header_fields), flds)
    /\ grouping_headers' = RowHeaders(grouping_headers, HeaderNames(header_fields), flds)
    /\ IF RowRaises(HeaderNames(header_fields), flds)
       THEN pc' = "abort" /\ error' = "KeyError"
       ELSE pc' = pc /\ error' = error
    /\ UNCHANGED <<use_iid, header_fields, grouping_info, grouping_systems, sample_names,
                   group_sets, group_sets_bound, line, sums, counts, out, lineno,
                   data_read>>

\* line 74 and line 145: end of the grouping file
ReturnGroupings ==
    /\ pc = "groupings_rows"
    /\ grouping_info' = grouping_dict
    /\ grouping_systems' = grouping_headers
    /\ header_fields' = <<>>
    /\ grouping_dict' = EmptyFn
    /\ grouping_headers' = EmptyFn
    /\ pc' = "read"
    /\ UNCHANGED <<error, use_iid, nrows, mismatch, sample_names, group_sets,
                   group_sets_bound, line, sums, counts, out, lineno, data_read>>

---------------------------------------------------------------------------
(* Variant-file lines, as their tab-separated fields *)

CHROM == <<"#", "C", "H", "R", "O", "M">>

\* the 9 leading columns of the sample-header line
HeaderColumns ==
    <<CHROM, <<"P">>, <<"I">>, <<"R">>, <<"A">>, <<"Q">>, <<"F">>, <<"I">>, <<"F">>>>

\* the 9 leading columns of two variants
Variants ==
    { <<<<"1">>, <<"5">>, <<"r", "1">>, <<"A">>, <<"G">>, <<".">>, <<".">>, <<".">>, <<"G", "T">>>>,
      <<<<"1">>, <<"7">>, <<"r", "2">>, <<"C">>, <<"T">>, <<".">>, <<".">>, <<".">>, <<"G", "T">>>> }

MetaLines == { <<<<"#", "#">>>> }

SampleNames == { <<"A">>, <<"B">>, <<"A", "_", "B">>, <<"C">> }

Genotypes == { <<"0", "/", "1">>, <<"1", "/", "1">>, <<".", "/", ".">> }

SampleHeaderLines == {HeaderColumns \o n : n \in SeqsUpTo(SampleNames, MaxSamples)}

DataLines == {v \o g : v \in Variants, g \in SeqsUpTo(Genotypes, MaxSamples)}

\* line.startswith('#') and line.startswith("#CHROM"), on the first field
IsComment(l) == StartsWith(l[1], <<"#">>)
IsSampleHeader(l) == StartsWith(l[1], CHROM)

\* fields[9:] and fields[:5]
From9(flds) == SubSeq(flds, 10, Len(flds))
First5(flds) == SubSeq(flds, 1, Min(5, Len(flds)))

---------------------------------------------------------------------------
(* get_frequencies *)

\* GroupSum with the columns numbered from 1; C4 tells it from GroupSum
RECURSIVE GroupSumFromOne(_, _, _)
GroupSumFromOne(genotype_list, members, n) ==
    IF n = 0 THEN 0
    ELSE GroupSumFromOne(genotype_list, members, n - 1)
         + (IF n \in members THEN CountOnes(genotype_list[n]) ELSE 0)

\* lines 100-103 for one group: individual_index runs over range(n)
RECURSIVE GroupSum(_, _, _)
GroupSum(genotype_list, members, n) ==
    IF n = 0 THEN 0
    ELSE GroupSum(genotype_list, members, n - 1)
         + (IF (n - 1) \in members THEN CountOnes(genotype_list[n]) ELSE 0)

\* lines 100-104 for one group
RECURSIVE GroupCount(_, _, _)
GroupCount(genotype_list, members, n) ==
    IF n = 0 THEN 0
    ELSE GroupCount(genotype_list, members, n - 1)
         + (IF (n - 1) \in members THEN CountDigits(genotype_list[n]) ELSE 0)

\* sums and counts after the loops of lines 95-104, keyed in group_index_list's order
Sums(genotype_list, group_index_list) ==
    [i \in 1..Len(group_index_list) |->
        [k |-> group_index_list[i].k,
         v |-> GroupSum(genotype_list, group_index_list[i].v, Len(genotype_list))]]

Counts(genotype_list, group_index_list) ==
    [i \in 1..Len(group_index_list) |->
        [k |-> group_index_list[i].k,
         v |-> GroupCount(genotype_list, group_index_list[i].v, Len(genotype_list))]]

\* line 107 raises ZeroDivisionError at the first group whose count is 0
DivisionRaises(cnts) == \E i \in 1..Len(cnts) : cnts[i].v = 0

\* the value of sums/counts, as a fraction in lowest terms
Quotient(s, c) == LET g == GCD(s, c) IN [num |-> s \div g, den |-> c \div g]

\* lines 106-107, when no count is 0
Frqs(sms, cnts) ==
    [i \in 1..Len(sms) |-> [k |-> sms[i].k, v |-> Quotient(sms[i].v, DictGet(cnts, sms[i].k))]]

---------------------------------------------------------------------------
(* main: the sample-header line *)

\* sample_name.split("_")[-use_iid] raises IndexError when there are too few tokens
ResolveRaises(name, k) == k > Len(SplitUnderscore(name))

\* Resolve with the tokens counted from the front; C9 tells it from Resolve
ResolveFromFront(name, k) == SplitUnderscore(name)[k]

Resolve(name, k) == LET t == SplitUnderscore(name) IN t[Len(t) - k + 1]

\* grouping_info[key] inserts the keys it misses
Touch(info, keys) == [x \in DOMAIN info \cup keys |-> TableEntry(info, x)]

\* AddIndex with the set assigned instead of added to; C5 tells it from AddIndex
RECURSIVE AddIndexAssigning(_, _, _)
AddIndexAssigning(gs, labels, individual_index) ==
    IF labels = <<>> THEN gs
    ELSE AddIndexAssigning(DictSet(gs, Head(labels), {individual_index}), Tail(labels),
                           individual_index)

\* line 176 for every label of one individual
RECURSIVE AddIndex(_, _, _)
AddIndex(gs, labels, individual_index) ==
    IF labels = <<>> THEN gs
    ELSE LET l == Head(labels)
             old == IF DictHas(gs, l) THEN DictGet(gs, l) ELSE {}
         IN  AddIndex(DictSet(gs, l, old \cup {individual_index}), Tail(labels),
                      individual_index)

\* lines 172-176: individual_index runs over range(n)
RECURSIVE BuildGroupSets(_, _, _)
BuildGroupSets(names, info, n) ==
    IF n = 0 THEN <<>>
    ELSE AddIndex(BuildGroupSets(names, info, n - 1),
                  DictValues(TableEntry(info, names[n])), n - 1)

Text(s) == [t |-> "text", s |-> s]
Literal(s) == [t |-> "literal", w |-> s]

\* lines 179-182
HeaderRow(gs) ==
    [cols |-> <<Literal("Chr"), Literal("Position"), Literal("rsID"), Literal("Ref"),
                Literal("Alt")>>
              \o [j \in 1..(2 * Len(gs)) |->
                    [t |-> "name", label |-> gs[(j + 1) \div 2].k,
                     suffix |-> IF j % 2 = 1 THEN "freq" ELSE "count"]],
     nl |-> TRUE]

\* line 161
FixedCols(flds) == [j \in 1..Len(First5(flds)) |-> Text(First5(flds)[j])]

\* lines 163-164: the keys of freqs, in order, index freqs and count
GroupCols(frqs, cnts) ==
    [j \in 1..(2 * Len(frqs)) |->
        LET name == frqs[(j + 1) \div 2].k
        IN  IF j % 2 = 1 THEN [t |-> "freq", q |-> DictGet(frqs, name)]
            ELSE [t |-> "count", n |-> DictGet(cnts, name)]]

---------------------------------------------------------------------------
(* main: the loop over the lines of the variant file, lines 156-182 *)

NoLine == <<>>

\* the loop of line 156 has a line to read
Reading == pc = "read" /\ lineno < MaxLines

\* lines 167-182
ProcessSampleHeader(l) ==
    /\ Reading
    /\ IsComment(l) /\ IsSampleHeader(l)
    /\ line' = l
    /\ lineno' = lineno + 1
    /\ LET names == From9(l)
       IN  IF \E i \in 1..Len(names) : ResolveRaises(names[i], use_iid)
           THEN /\ pc' = "abort"
                /\ error' = "IndexError"
                /\ UNCHANGED <<sample_names, group_sets, group_sets_bound,
                               grouping_info, out>>
           ELSE LET resolved == [i \in 1..Len(names) |-> Resolve(names[i], use_iid)]
                    built == BuildGroupSets(resolved, grouping_info, Len(resolved))
                IN  /\ sample_names' = resolved
                    /\ group_sets' = built
                    /\ group_sets_bound' = TRUE
                    /\ grouping_info' =
                          Touch(grouping_info, {resolved[i] : i \in 1..Len(resolved)})
                    /\ out' = Append(out, HeaderRow(built))
                    /\ UNCHANGED <<pc, error>>
    /\ UNCHANGED <<use_iid, header_fields, grouping_dict, grouping_headers, nrows,
                   mismatch, grouping_systems, sums, counts, data_read>>

\* a line that starts with '#' and not with "#CHROM" matches neither branch
SkipComment(l) ==
    /\ Reading
    /\ IsComment(l) /\ ~IsSampleHeader(l)
    /\ line' = l
    /\ lineno' = lineno + 1
    /\ UNCHANGED <<pc, error, use_iid, header_fields, grouping_dict, grouping_headers,
                   nrows, mismatch, grouping_info, grouping_systems, sample_names,
                   group_sets, group_sets_bound, sums, counts, out, data_read>>

\* lines 157-165; line 161 has written the fixed columns when line 162 fails
ProcessDataLine(l) ==
    /\ Reading
    /\ ~IsComment(l)
    /\ line' = l
    /\ lineno' = lineno + 1
    /\ data_read' = Append(data_read, First5(l))
    /\ IF ~group_sets_bound
       THEN /\ out' = Append(out, [cols |-> FixedCols(l), nl |-> FALSE])
            /\ pc' = "abort"
            /\ error' = "UnboundLocalError"
            /\ UNCHANGED <<sums, counts>>
       ELSE LET sms == Sums(From9(l), group_sets)
                cnts == Counts(From9(l), group_sets)
            IN  /\ sums' = sms
                /\ counts' = cnts
                /\ IF DivisionRaises(cnts)
                   THEN /\ out' = Append(out, [cols |-> FixedCols(l), nl |-> FALSE])
                        /\ pc' = "abort"
                        /\ error' = "ZeroDivisionError"
                   ELSE /\ out' = Append(out,
                              [cols |-> FixedCols(l) \o GroupCols(Frqs(sms, cnts), cnts),
                               nl |-> TRUE])
                        /\ UNCHANGED <<pc, error>>
    /\ UNCHANGED <<use_iid, header_fields, grouping_dict, grouping_headers, nrows,
                   mismatch, grouping_info, grouping_systems, sample_names, group_sets,
                   group_sets_bound>>

\* the loop of line 156 runs out of lines; both files are closed
EndOfFile ==
    /\ pc = "read"
    /\ pc' = "done"
    /\ UNCHANGED <<error, use_iid, header_fields, grouping_dict, grouping_headers,
                   nrows, mismatch, grouping_info, grouping_systems, sample_names,
                   group_sets, group_sets_bound, line, sums, counts, out, lineno,
                   data_read>>

---------------------------------------------------------------------------
(* The run: lines 124-182 *)

Init ==
    /\ pc = "groupings_header"
    /\ error = ""
    /\ use_iid \in {1, 2}
    /\ header_fields = <<>>
    /\ grouping_dict = EmptyFn
    /\ grouping_headers = EmptyFn
    /\ nrows = 0
    /\ mismatch = FALSE
    /\ grouping_info = EmptyFn
    /\ grouping_systems = EmptyFn
    /\ sample_names = <<>>
    /\ group_sets = <<>>
    /\ group_sets_bound = FALSE
    /\ line = NoLine
    /\ sums = <<>>
    /\ counts = <<>>
    /\ out = <<>>
    /\ lineno = 0
    /\ data_read = <<>>

\* line 156 yields the next line of the variant file
SampleHeaderLine == Reading /\ \E l \in SampleHeaderLines : ProcessSampleHeader(l)
MetaLine == Reading /\ \E l \in MetaLines : SkipComment(l)
DataLine == Reading /\ \E l \in DataLines : ProcessDataLine(l)

Next ==
    \/ \E hf \in GroupingHeaders : ReadGroupingHeader(hf)
    \/ \E flds \in GroupingRows : ReadGroupingRow(flds)
    \/ ReturnGroupings
    \/ SampleHeaderLine
    \/ MetaLine
    \/ DataLine
    \/ EndOfFile

Spec == Init /\ [][Next]_vars

---------------------------------------------------------------------------
(* The resolver, the index builder and the aggregator on wider inputs.     *)
(*                                                                         *)
(* These specifications start in states of the run above: after            *)
(* get_groupings has returned the table of a given grouping file,          *)
(* computed here by the loader's own operators, and with all but the last  *)
(* line of the variant file consumed.                                      *)

\* grouping_dict after the first n rows, none of which raises
RECURSIVE LoadedDict(_, _, _)
LoadedDict(hf, rows, n) ==
    IF n = 0 THEN EmptyFn
    ELSE RowDict(LoadedDict(hf, rows, n - 1), HeaderNames(hf), rows[n])

\* grouping_headers after the first n rows
RECURSIVE LoadedHeaders(_, _, _)
LoadedHeaders(hf, rows, n) ==
    IF n = 0 THEN EmptyFn
    ELSE RowHeaders(LoadedHeaders(hf, rows, n - 1), HeaderNames(hf), rows[n])

\* Grouping file "ID SYS1 / A x / B y / C x" with samples A, B, C, and a file
\* with two grouping systems that share a label, sample names of two tokens.
ExampleRuns ==
    { [hf |-> <<"ID", "SYS1">>,
       rows |-> << <<<<"A">>, "x">>, <<<<"B">>, "y">>, <<<<"C">>, "x">> >>,
       names |-> << <<"A">>, <<"B">>, <<"C">> >>],
      [hf |-> <<"ID", "SYS1", "SYS2">>,
       rows |-> << <<<<"A">>, "x", "y">>, <<<<"B">>, "y", "y">> >>,
       names |-> << <<"B", "_", "A">>, <<"A", "_", "B">>, <<"A", "_", "A">> >>] }

\* whether some non-blank row's field count differs from the header's
Mismatched(hf, rows) == \E r \in 1..Len(rows) : Len(rows[r]) > 0 /\ Len(rows[r]) # Len(hf)

\* the state when get_groupings has returned and n variant-file lines, all
\* of them metadata, have been consumed
AfterGroupings(ex, n) ==
    /\ pc = "read"
    /\ error = ""
    /\ header_fields = <<>>
    /\ grouping_dict = EmptyFn
    /\ grouping_headers = EmptyFn
    /\ nrows = Len(ex.rows)
    /\ mismatch = Mismatched(ex.hf, ex.rows)
    /\ grouping_info = LoadedDict(ex.hf, ex.rows, Len(ex.rows))
    /\ grouping_systems = LoadedHeaders(ex.hf, ex.rows, Len(ex.rows))
    /\ sample_names = <<>>
    /\ group_sets = <<>>
    /\ group_sets_bound = FALSE
    /\ line = (IF n = 0 THEN NoLine ELSE CHOOSE l \in MetaLines : TRUE)
    /\ sums = <<>>
    /\ counts = <<>>
    /\ out = <<>>
    /\ lineno = n
    /\ data_read = <<>>

\* sample names: up to MaxTokens tokens of at most one letter, joined by '_'
Tokens == { <<>>, <<"A">>, <<"B">> }

RECURSIVE Join(_)
Join(toks) ==
    IF Len(toks) = 1 THEN toks[1] ELSE toks[1] \o <<"_">> \o Join(Tail(toks))

WideSampleNames == {Join(t) : t \in SeqsUpTo(Tokens, MaxTokens) \ {<<>>}}

\* lists of the usual sample names with one name replaced by any of those
WideSampleNameLists ==
    LET usual == SeqsUpTo(SampleNames, MaxSamples)
    IN  usual \cup UNION { {[g EXCEPT ![i] = s] : s \in WideSampleNames} :
                            <<g, i>> \in {<<g, i>> \in usual \X (1..MaxSamples) :
                                            i <= Len(g)} }

WideSampleHeaderLines == {HeaderColumns \o n : n \in WideSampleNameLists}

WideSampleHeaderLine ==
    Reading /\ \E l \in WideSampleHeaderLines : ProcessSampleHeader(l)

InitResolve ==
    /\ use_iid \in {1, 2}
    /\ \E ex \in ExampleRuns : AfterGroupings(ex, MaxLines - 1)

NextResolve ==
    \/ WideSampleHeaderLine
    \/ EndOfFile

SpecResolve == InitResolve /\ [][NextResolve]_vars

\* grouping files with one row for each individual, of any number of labels
\* the header allows
IndividualOrder == << <<"A">>, <<"B">> >>

IndexFiles ==
    { f \in { [hf |-> h,
               rows |-> [i \in 1..Len(IndividualOrder) |-> <<IndividualOrder[i]>> \o l[i]]] :
             h \in GroupingHeaders,
             l \in [1..Len(IndividualOrder) -> SeqsUpTo(Labels, MaxSys)] } :
        \A r \in 1..Len(f.rows) : ~RowRaises(HeaderNames(f.hf), f.rows[r]) }

InitIndex ==
    /\ use_iid \in {1, 2}
    /\ \E f \in IndexFiles : AfterGroupings(f, MaxLines - 1)

NextIndex ==
    \/ SampleHeaderLine
    \/ EndOfFile

SpecIndex == InitIndex /\ [][NextIndex]_vars

\* the state when, after that, the example's sample-header line has been
\* processed as the line before the last
AfterSampleHeader(ex) ==
    LET l == HeaderColumns \o ex.names
        info == LoadedDict(ex.hf, ex.rows, Len(ex.rows))
        resolved == [i \in 1..Len(ex.names) |-> Resolve(ex.names[i], use_iid)]
        built == BuildGroupSets(resolved, info, Len(resolved))
    IN  /\ \A i \in 1..Len(ex.names) : ~ResolveRaises(ex.names[i], use_iid)
        /\ pc = "read"
        /\ error = ""
        /\ header_fields = <<>>
        /\ grouping_dict = EmptyFn
        /\ grouping_headers = EmptyFn
        /\ nrows = Len(ex.rows)
        /\ mismatch = Mismatched(ex.hf, ex.rows)
        /\ grouping_info = Touch(info, {resolved[i] : i \in 1..Len(resolved)})
        /\ grouping_systems = LoadedHeaders(ex.hf, ex.rows, Len(ex.rows))
        /\ sample_names = resolved
        /\ group_sets = built
        /\ group_sets_bound = TRUE
        /\ line = l
        /\ sums = <<>>
        /\ counts = <<>>
        /\ out = <<HeaderRow(built)>>
        /\ lineno = MaxLines - 1
        /\ data_read = <<>>

\* genotype fields: every string of at most MaxGtLen of these characters
GtChars == {"0", "1", "2", "/", "."}

WideGenotypes == SeqsUpTo(GtChars, MaxGtLen)

\* one genotype field per sample of an example, all of them usual calls but
\* one, which is any string
WideGenotypeLists ==
    UNION { {[g EXCEPT ![i] = s] : s \in WideGenotypes} :
            <<g, i>> \in UNION { [1..Len(ex.names) -> Genotypes] \X (1..Len(ex.names)) :
                                 ex \in ExampleRuns } }

WideDataLines == {v \o g : v \in Variants, g \in WideGenotypeLists}

WideDataLine == Reading /\ \E l \in WideDataLines : ProcessDataLine(l)

InitAggregate ==
    /\ use_iid \in {1, 2}
    /\ \E ex \in ExampleRuns : AfterSampleHeader(ex)

NextAggregate ==
    \/ WideDataLine
    \/ EndOfFile

SpecAggregate == InitAggregate /\ [][NextAggregate]_vars

---------------------------------------------------------------------------
(* Properties *)

IsHeaderRow(r) == r.cols[1].t = "literal"
IsBodyRow(r) == ~IsHeaderRow(r)

\* the line being processed is a data line, and get_frequencies ran on it
Aggregated == Len(line) > 0 /\ ~IsComment(line) /\ group_sets_bound

\* the line being processed is the sample-header line
AtSampleHeader == Len(line) > 0 /\ IsSampleHeader(line)

\* positions (column, character) of the genotype fields of a group's columns
\* whose character is in chars
Occurrences(genotype_list, members, chars) ==
    UNION { {<<i, j>> : j \in {j \in 1..Len(genotype_list[i + 1]) :
                                  genotype_list[i + 1][j] \in chars}} :
            i \in {i \in members : i < Len(genotype_list)} }

\* C1: whenever a group's call_total is 0 on a data row, the row is still
\* written in full (the frequency as a sentinel) and the run goes on.
C1_ZeroCallTotalIsNotFatal ==
    (Aggregated /\ DivisionRaises(counts)) =>
        /\ pc # "abort"
        /\ error = ""
        /\ out[Len(out)].nl
        /\ Len(out[Len(out)].cols) = 5 + 2 * Len(group_sets)

\* C2: when the sample-header line names a sample whose resolved key is not
\* in the grouping table (after the read, such a key has an empty entry), the
\* run has aborted and nothing has been written.
C2_UnresolvedSampleAborts ==
    (AtSampleHeader /\ \E i \in 1..Len(From9(line)) :
        /\ ~ResolveRaises(From9(line)[i], use_iid)
        /\ TableEntry(grouping_info, Resolve(From9(line)[i], use_iid)) = <<>>)
    => (pc = "abort" /\ Len(out) = 0)

\* C3: a grouping-file row whose field count differs from the header's
\* aborts the load with a format error, so no table is returned.
C3_MismatchedRowAbortsLoad == mismatch => (pc = "abort" /\ error = "KeyError")

\* C4: after get_frequencies on a data row, every group's sum is the number
\* of '1' characters and its count the number of digit characters of the
\* genotype fields at exactly the group's column positions, and the count
\* written to the row is that number.
C4_CountsAreCharacterTotals ==
    Aggregated =>
        /\ Len(sums) = Len(group_sets)
        /\ Len(counts) = Len(group_sets)
        /\ \A g \in 1..Len(group_sets) :
              /\ sums[g].k = group_sets[g].k
              /\ counts[g].k = group_sets[g].k
              /\ sums[g].v =
                    Cardinality(Occurrences(From9(line), group_sets[g].v, {"1"}))
              /\ counts[g].v =
                    Cardinality(Occurrences(From9(line), group_sets[g].v, Digits))
              /\ error = "" =>
                    out[Len(out)].cols[5 + 2 * g] = [t |-> "count", n |-> counts[g].v]

\* the example of C4: fields 0/1, 1/1, 0/0 with x = {0, 2} and y = {1}
C4_Witness ==
    /\ Aggregated
    /\ error = ""
    /\ From9(line) = << <<"0", "/", "1">>, <<"1", "/", "1">>, <<"0", "/", "0">> >>
    /\ group_sets = << [k |-> "x", v |-> {0, 2}], [k |-> "y", v |-> {1}] >>
    /\ sums = << [k |-> "x", v |-> 1], [k |-> "y", v |-> 2] >>
    /\ counts = << [k |-> "x", v |-> 4], [k |-> "y", v |-> 2] >>

\* C5: position i is in the index set of label L exactly when the table
\* entry of the i-th resolved sample assigns L under some grouping system;
\* the index has one entry per label, none of them empty.
C5_IndexMatchesTable ==
    group_sets_bound =>
        /\ \A g, h \in 1..Len(group_sets) : group_sets[g].k = group_sets[h].k => g = h
        /\ \A g \in 1..Len(group_sets) :
              group_sets[g].v =
                 {i \in 0..(Len(sample_names) - 1) :
                    \E s \in 1..Len(TableEntry(grouping_info, sample_names[i + 1])) :
                       TableEntry(grouping_info, sample_names[i + 1])[s].v = group_sets[g].k}
        /\ \A i \in 1..Len(sample_names) :
              \A s \in 1..Len(TableEntry(grouping_info, sample_names[i])) :
                 DictHas(group_sets, TableEntry(grouping_info, sample_names[i])[s].v)
        /\ \A g \in 1..Len(group_sets) : group_sets[g].v # {}

\* two samples, one of them under two labels, the other under one label that
\* two grouping systems share
C5_Witness ==
    /\ group_sets_bound
    /\ Len(sample_names) = 2
    /\ \E g, h \in 1..Len(group_sets) :
          g # h /\ group_sets[g].v = {0, 1} /\ group_sets[h].v = {0}
    /\ Len(TableEntry(grouping_info, sample_names[2])) = 2

\* C6: the complete body rows of the output are, in order, the data lines
\* consumed, each with the line's first five fields (here already for runs
\* in which the sample-header line precedes the data lines).
C6_OneBodyRowPerDataLine ==
    error # "UnboundLocalError" =>
        LET body == SelectSeq(out, IsBodyRow)
        IN  /\ Len(body) = Len(data_read)
            /\ \A r \in 1..Len(body) :
                  /\ body[r].nl
                  /\ Len(body[r].cols) >= 5
                  /\ \A j \in 1..5 : body[r].cols[j] = Text(data_read[r][j])

\* C7: every header row has 5 + 2N columns for the N labels it names, and
\* every body row has as many columns as the header row before it; the
\* k-th pair of the row just written is the frequency and count of the
\* k-th label of the index.
C7_RowsAlignWithHeader ==
    group_sets_bound =>
        /\ \A r \in 1..Len(out) :
              IF IsHeaderRow(out[r])
              THEN Len(out[r].cols) =
                      5 + 2 * Cardinality({out[r].cols[j].label :
                                              j \in 6..Len(out[r].cols)})
              ELSE \E h \in 1..(r - 1) :
                      /\ IsHeaderRow(out[h])
                      /\ \A m \in (h + 1)..(r - 1) : IsBodyRow(out[m])
                      /\ Len(out[r].cols) = Len(out[h].cols)
        /\ Aggregated =>
              \A g \in 1..Len(group_sets) :
                 /\ Len(out[Len(out)].cols) >= 5 + 2 * g
                 /\ out[Len(out)].cols[5 + 2 * g] =
                       [t |-> "count", n |-> DictGet(counts, group_sets[g].k)]

\* C8: on every data row every group has 0 <= allele_hits <= call_total,
\* and a frequency that is written is their ratio, within [0, 1].
C8_FrequencyWithinUnitInterval ==
    Aggregated =>
        \A g \in 1..Len(group_sets) :
           /\ 0 <= sums[g].v
           /\ sums[g].v <= counts[g].v
           /\ error = "" =>
                 LET cell == out[Len(out)].cols[4 + 2 * g]
                 IN  /\ cell.t = "freq"
                     /\ cell.q.den > 0
                     /\ 0 <= cell.q.num
                     /\ cell.q.num <= cell.q.den
                     /\ cell.q.num * counts[g].v = sums[g].v * cell.q.den

\* a row with the frequencies 1/4 and 1
C8_Witness ==
    /\ Aggregated
    /\ error = ""
    /\ Len(group_sets) = 2
    /\ out[Len(out)].cols[6] = [t |-> "freq", q |-> [num |-> 1, den |-> 4]]
    /\ out[Len(out)].cols[8] = [t |-> "freq", q |-> [num |-> 1, den |-> 1]]

NoSeparator(s) == \A j \in 1..Len(s) : s[j] # "_"

\* t is the text after the last '_' of name, or all of name if it has none
IsLastToken(name, t) ==
    /\ NoSeparator(t)
    /\ Len(t) <= Len(name)
    /\ SubSeq(name, Len(name) - Len(t) + 1, Len(name)) = t
    /\ Len(t) < Len(name) => name[Len(name) - Len(t)] = "_"

\* t is the token before the last '_' of name
IsSecondToLastToken(name, t) ==
    \E m \in 1..Len(name) :
       /\ name[m] = "_"
       /\ NoSeparator(SubSeq(name, m + 1, Len(name)))
       /\ IsLastToken(SubSeq(name, 1, m - 1), t)

\* C9: once the sample-header line is processed, sample_names lists, in
\* column order, the last '_'-delimited token of each sample name under the
\* individual policy and the second-to-last under the family policy; the
\* line is rejected only under the family policy, by a name of one token.
C9_ResolvedKeyIsSelectedToken ==
    AtSampleHeader =>
        LET names == From9(line)
        IN  /\ error = "" =>
                 /\ Len(sample_names) = Len(names)
                 /\ \A i \in 1..Len(names) :
                       IF use_iid = 1 THEN IsLastToken(names[i], sample_names[i])
                       ELSE IsSecondToLastToken(names[i], sample_names[i])
            /\ error # "" =>
                 /\ error = "IndexError"
                 /\ use_iid = 2
                 /\ \E i \in 1..Len(names) : NoSeparator(names[i])

\* a name of three tokens A_B_A resolved to B under the family policy, before
\* the name A_B resolved to A
C9_Witness ==
    /\ AtSampleHeader
    /\ error = ""
    /\ use_iid = 2
    /\ From9(line) = << <<"A", "_", "B", "_", "A">>, <<"A", "_", "B">> >>
    /\ sample_names = << <<"B">>, <<"A">> >>

\* C10: the output header is rendered, and the group index built, once.
C10_HeaderRenderedOnce ==
    Cardinality({r \in 1..Len(out) : IsHeaderRow(out[r])}) <= 1

===========================================================================
